---- MODULE Spec2Model ----
(***************************************************************************)
(* Model of fsdecay/fs.py: the in-memory FUSE filesystem `Memory` whose    *)
(* entries carry a time-to-live and are reaped lazily by the `with_ttl`    *)
(* decorator.                                                              *)
(*                                                                         *)
(* Paths and byte strings are sequences of one-character strings, so that  *)
(* startswith, count("/") and slicing are computed as Python computes      *)
(* them.  Every handler is one atomic step taken at one clock value `now`  *)
(* (the handlers are synchronous and the host is single-threaded); the     *)
(* clock advances between calls through Tick.                              *)
(***************************************************************************)
EXTENDS Integers, Sequences, FiniteSets, TLC

\* ------------------------------------------------------------------ bounds
MaxCalls == 3     \* a behaviour of Spec makes at most MaxCalls calls
MaxFileCalls == 6 \* a behaviour of SpecFile makes at most MaxFileCalls calls
MaxTime  == 2     \* the clock runs over 0..MaxTime
MaxTtl   == 1     \* default_ttl is drawn from 1..MaxTtl at construction
MaxConcCalls == 2 \* calls made before the concurrent calls are dispatched
MaxThreads == 2   \* calls the dispatcher runs at the same time
MaxLen   == 3     \* byte strings of the content store have at most MaxLen bytes

\* ------------------------------------------------------- paths and strings
Root == <<"/">>
PA   == <<"/", "a">>
PAB  == <<"/", "a", "b">>
PAsB == <<"/", "a", "/", "b">>

\* "/", "/a", "/ab" and "/a/b"
Paths == {Root, PA, PAB, PAsB}

\* str.startswith
StartsWith(x, prefix) ==
    /\ Len(prefix) <= Len(x)
    /\ SubSeq(x, 1, Len(prefix)) = prefix

\* str.count(c) for a one-character c
Count(x, c) == Cardinality({i \in 1..Len(x) : x[i] = c})

\* s[lo:hi] for 0 <= lo, 0 <= hi (Python clips both ends to len(s))
Slice(s, lo, hi) ==
    LET h == IF hi < Len(s) THEN hi ELSE Len(s)
    IN  IF lo >= h THEN <<>> ELSE SubSeq(s, lo + 1, h)

\* s[lo:]
SliceFrom(s, lo) == Slice(s, lo, Len(s))

\* dict.pop(k) / dict[k] = v on a dictionary modelled as a function
Pop(d, k) == [q \in DOMAIN d \ {k} |-> d[q]]
Put(d, k, v) == [q \in DOMAIN d \cup {k} |-> IF q = k THEN v ELSE d[q]]

\* ------------------------------------------------------------------- state
VARIABLES
    files,        \* self.files: path -> stat dictionary
    data,         \* self.data: defaultdict(str), path -> bytes
    fd,           \* self.fd
    default_ttl,  \* self.default_ttl
    now,          \* what time() returns
    last,         \* the last call: its name, arguments and outcome
    calls,        \* the number of calls made so far
    links,        \* history: target -> source and time of the symlink calls
                  \* whose target no later call removed, renamed, wrote or
                  \* truncated
    th            \* the calls in flight under a threaded dispatcher: for each
                  \* thread its position in with_ttl(getattr) and its locals

vars == <<calls, now, files, data, fd, default_ttl, last, links, th>>

\* self.data[path] of a defaultdict(str): the stored bytes, "" when missing
DataGet(d, path) == IF path \in DOMAIN d THEN d[path] ELSE <<>>

\* the side effect of self.data[path] on a defaultdict: a missing key is inserted
DataTouch(d, path) == IF path \in DOMAIN d THEN d ELSE Put(d, path, <<>>)

\* the mutable part of Memory, as handed through a call
St(f, d, n) == [files |-> f, data |-> d, fd |-> n]

\* a handler's outcome: the state it leaves, the exception it raised
\* ("none", "ENOENT" for FuseOSError(ENOENT), "KeyError") and its return value
Out(st, err, ret) == [st |-> st, err |-> err, ret |-> ret]

\* -------------------------------------------------------------- expiry gate
\* check_ttl that takes the boundary ctime + ttl = now for elapsed
check_ttl_Early(f, path, t) ==
    IF /\ path \in DOMAIN f
       /\ "st_ctime" \in DOMAIN f[path]
       /\ "ttl" \in DOMAIN f[path]
    THEN f[path].st_ctime + f[path].ttl <= t
    ELSE FALSE

\* check_ttl with the comparison off by one tick
check_ttl_Late(f, path, t) ==
    IF /\ path \in DOMAIN f
       /\ "st_ctime" \in DOMAIN f[path]
       /\ "ttl" \in DOMAIN f[path]
    THEN f[path].st_ctime + f[path].ttl + 1 < t
    ELSE FALSE

\* Memory.check_ttl: a missing path, st_ctime or ttl is a KeyError -> False
check_ttl(f, path, t) ==
    IF /\ path \in DOMAIN f
       /\ "st_ctime" \in DOMAIN f[path]
       /\ "ttl" \in DOMAIN f[path]
    THEN f[path].st_ctime + f[path].ttl < t
    ELSE FALSE

\* a sweep that looks at the path alone and not at the keys it prefixes
Reaped_NoCascade(f, path, t) ==
    {p \in DOMAIN f : p = path /\ check_ttl(f, p, t)}

\* the paths the loop of is_expired pops: every stored key that starts with
\* `path` (the path itself included) and whose TTL has elapsed
Reaped(f, path, t) ==
    {p \in DOMAIN f : StartsWith(p, path) /\ check_ttl(f, p, t)}

\* self.files after the loop of is_expired
Sweep(f, path, t) == [p \in DOMAIN f \ Reaped(f, path, t) |-> f[p]]

\* Memory.is_expired: the value returned, computed on the swept store
is_expired(f, path, t) == check_ttl(Sweep(f, path, t), path, t)

\* Memory.rmdir without its decorator
rmdir_body(st, path) ==
    IF path \notin DOMAIN st.files
    THEN Out(st, "KeyError", "None")
    ELSE LET f1 == Pop(st.files, path)
         IN  IF Root \notin DOMAIN f1
             THEN Out([st EXCEPT !.files = f1], "KeyError", "None")
             ELSE Out([st EXCEPT !.files =
                          [f1 EXCEPT ![Root].st_nlink = @ - 1]], "none", "None")

\* Memory.rmdir as with_ttl calls it: rmdir is itself decorated
RECURSIVE rmdir(_, _, _)
rmdir(st, path, t) ==
    LET s1 == [st EXCEPT !.files = Sweep(st.files, path, t)]
    IN  IF is_expired(st.files, path, t)
        THEN LET r == rmdir(s1, path, t)
             IN  IF r.err = "none" THEN Out(r.st, "ENOENT", "None") ELSE r
        ELSE rmdir_body(s1, path)

\* with_ttl up to the call of the decorated function: the outcome of the
\* expired branch (rmdir, then ENOENT), or "proceed" with the swept store.
\* The loop of is_expired has popped `path` itself when its TTL has elapsed,
\* so the check_ttl(path) that follows finds no entry and answers False.
with_ttl(st, path, t) ==
    LET s1 == [st EXCEPT !.files = Sweep(st.files, path, t)]
    IN  IF is_expired(st.files, path, t)
        THEN LET r == rmdir(s1, path, t)
             IN  IF r.err = "none" THEN Out(r.st, "ENOENT", "None") ELSE r
        ELSE Out(s1, "proceed", "None")

\* ------------------------------------------------------- decorated functions
\* st_mode: the S_IF* type bits and the permission bits
Mode(ifmt, perm) == [ifmt |-> ifmt, perm |-> perm]

\* Memory.chmod: `&= 0770000` keeps the type bits, `|= mode` sets the rest
chmod_body(st, path, mode) ==
    IF path \notin DOMAIN st.files
    THEN Out(st, "KeyError", "None")
    ELSE Out([st EXCEPT !.files[path].st_mode.perm = mode], "none", 0)

chmod(st, path, mode, t) ==
    LET g == with_ttl(st, path, t)
    IN  IF g.err = "proceed" THEN chmod_body(g.st, path, mode) ELSE g

\* Memory.chown
chown_body(st, path, uid, gid) ==
    IF path \notin DOMAIN st.files
    THEN Out(st, "KeyError", "None")
    ELSE Out([st EXCEPT !.files[path] =
                 Put(Put(@, "st_uid", uid), "st_gid", gid)], "none", "None")

chown(st, path, uid, gid, t) ==
    LET g == with_ttl(st, path, t)
    IN  IF g.err = "proceed" THEN chown_body(g.st, path, uid, gid) ELSE g

\* Memory.create
create_body(st, path, mode, t, ttl) ==
    LET e == [st_mode |-> Mode("S_IFREG", mode), st_nlink |-> 1, st_size |-> 0,
              st_ctime |-> t, st_mtime |-> t, st_atime |-> t, ttl |-> ttl]
    IN  Out([st EXCEPT !.files = Put(@, path, e), !.fd = @ + 1],
            "none", st.fd + 1)

create(st, path, mode, t, ttl) ==
    LET g == with_ttl(st, path, t)
    IN  IF g.err = "proceed" THEN create_body(g.st, path, mode, t, ttl) ELSE g

\* Memory.getattr
getattr_body(st, path) ==
    IF path \notin DOMAIN st.files
    THEN Out(st, "ENOENT", "None")
    ELSE Out(st, "none", st.files[path])

getattr(st, path, t) ==
    LET g == with_ttl(st, path, t)
    IN  IF g.err = "proceed" THEN getattr_body(g.st, path) ELSE g

\* self.files[path].get('attrs', {})
Attrs(e) == IF "attrs" \in DOMAIN e THEN e.attrs ELSE <<>>

\* Memory.getxattr
getxattr_body(st, path, name) ==
    IF path \notin DOMAIN st.files
    THEN Out(st, "ENOENT", "None")
    ELSE LET attrs == Attrs(st.files[path])
         IN  Out(st, "none", IF name \in DOMAIN attrs THEN attrs[name] ELSE "")

getxattr(st, path, name, t) ==
    LET g == with_ttl(st, path, t)
    IN  IF g.err = "proceed" THEN getxattr_body(g.st, path, name) ELSE g

\* Memory.listxattr
listxattr_body(st, path) ==
    IF path \notin DOMAIN st.files
    THEN Out(st, "KeyError", "None")
    ELSE Out(st, "none", DOMAIN Attrs(st.files[path]))

listxattr(st, path, t) ==
    LET g == with_ttl(st, path, t)
    IN  IF g.err = "proceed" THEN listxattr_body(g.st, path) ELSE g

\* Memory.mkdir
mkdir_body(st, path, mode, t, ttl) ==
    LET e == [st_mode |-> Mode("S_IFDIR", mode), st_nlink |-> 2, st_size |-> 0,
              st_ctime |-> t, st_mtime |-> t, st_atime |-> t, ttl |-> ttl]
        f1 == Put(st.files, path, e)
    IN  IF Root \notin DOMAIN f1
        THEN Out([st EXCEPT !.files = f1], "KeyError", "None")
        ELSE Out([st EXCEPT !.files = [f1 EXCEPT ![Root].st_nlink = @ + 1]],
                 "none", "None")

mkdir(st, path, mode, t, ttl) ==
    LET g == with_ttl(st, path, t)
    IN  IF g.err = "proceed" THEN mkdir_body(g.st, path, mode, t, ttl) ELSE g

\* Memory.open
open_body(st) == Out([st EXCEPT !.fd = @ + 1], "none", st.fd + 1)

open(st, path, t) ==
    LET g == with_ttl(st, path, t)
    IN  IF g.err = "proceed" THEN open_body(g.st) ELSE g

\* Memory.read
read_body(st, path, size, offset) ==
    Out([st EXCEPT !.data = DataTouch(@, path)], "none",
        Slice(DataGet(st.data, path), offset, offset + size))

read(st, path, size, offset, t) ==
    LET g == with_ttl(st, path, t)
    IN  IF g.err = "proceed" THEN read_body(g.st, path, size, offset) ELSE g

\* Memory._filter_readdir
filter_readdir(x, path) ==
    LET offset == IF path # Root THEN 1 ELSE 0
    IN  /\ x # path
        /\ StartsWith(x, path)
        /\ Count(x, "/") <= Count(path, "/") + offset

\* Memory.readdir: the names, as a set (a dictionary has no order to keep)
readdir_body(st, path) ==
    LET offset == IF Len(path) = 1 THEN 1 ELSE Len(path) + 1
    IN  Out(st, "none",
            {<<".">>, <<".", ".">>} \cup
            {SliceFrom(x, offset) : x \in {y \in DOMAIN st.files :
                                              filter_readdir(y, path)}})

readdir(st, path, t) ==
    LET g == with_ttl(st, path, t)
    IN  IF g.err = "proceed" THEN readdir_body(g.st, path) ELSE g

\* Memory.readlink
readlink_body(st, path) ==
    Out([st EXCEPT !.data = DataTouch(@, path)], "none", DataGet(st.data, path))

readlink(st, path, t) ==
    LET g == with_ttl(st, path, t)
    IN  IF g.err = "proceed" THEN readlink_body(g.st, path) ELSE g

\* Memory.removexattr: `del attrs[name]` acts on the stored dictionary, or on
\* the temporary {} that get() returns when the entry has no 'attrs'
removexattr_body(st, path, name) ==
    IF path \notin DOMAIN st.files
    THEN Out(st, "KeyError", "None")
    ELSE IF "attrs" \in DOMAIN st.files[path]
         THEN Out([st EXCEPT !.files[path].attrs = Pop(@, name)], "none", "None")
         ELSE Out(st, "none", "None")

removexattr(st, path, name, t) ==
    LET g == with_ttl(st, path, t)
    IN  IF g.err = "proceed" THEN removexattr_body(g.st, path, name) ELSE g

\* Memory.rename (not decorated)
rename(st, old, new) ==
    IF old \notin DOMAIN st.files
    THEN Out(st, "KeyError", "None")
    ELSE Out([st EXCEPT !.files = Put(Pop(@, old), new, st.files[old])],
             "none", "None")

\* Memory.setxattr
setxattr_body(st, path, name, value) ==
    IF path \notin DOMAIN st.files
    THEN Out(st, "ENOENT", "None")
    ELSE Out([st EXCEPT !.files[path] =
                 Put(@, "attrs", Put(Attrs(@), name, value))], "none", "None")

setxattr(st, path, name, value, t) ==
    LET g == with_ttl(st, path, t)
    IN  IF g.err = "proceed" THEN setxattr_body(g.st, path, name, value) ELSE g

\* Memory.statfs
statfs_body(st) ==
    Out(st, "none", [f_bsize |-> 512, f_blocks |-> 4096, f_bavail |-> 2048])

statfs(st, path, t) ==
    LET g == with_ttl(st, path, t)
    IN  IF g.err = "proceed" THEN statfs_body(g.st) ELSE g

\* a symlink that stores the entry and leaves the target's buffer as it was
symlink_NoData(st, target, source) ==
    LET e == [st_mode |-> Mode("S_IFLNK", 511), st_nlink |-> 1,
              st_size |-> Len(source)]
    IN  Out([st EXCEPT !.files = Put(@, target, e)], "none", "None")

\* Memory.symlink (not decorated)
symlink(st, target, source) ==
    LET e == [st_mode |-> Mode("S_IFLNK", 511), st_nlink |-> 1,
              st_size |-> Len(source)]
    IN  Out([st EXCEPT !.files = Put(@, target, e),
                       !.data = Put(@, target, source)], "none", "None")

\* a truncate that records the new size and leaves the buffer as it was
truncate_body_NoCut(st, path, length) ==
    LET d1 == DataTouch(st.data, path)
    IN  IF path \notin DOMAIN st.files
        THEN Out([st EXCEPT !.data = d1], "KeyError", "None")
        ELSE Out([st EXCEPT !.data = d1,
                            !.files[path] = Put(@, "st_size", length)],
                 "none", "None")

\* Memory.truncate: the buffer is assigned before st_size is looked up
truncate_body(st, path, length) ==
    LET d1 == Put(st.data, path, Slice(DataGet(st.data, path), 0, length))
    IN  IF path \notin DOMAIN st.files
        THEN Out([st EXCEPT !.data = d1], "KeyError", "None")
        ELSE Out([st EXCEPT !.data = d1,
                            !.files[path] = Put(@, "st_size", length)],
                 "none", "None")

truncate(st, path, length, t) ==
    LET g == with_ttl(st, path, t)
    IN  IF g.err = "proceed" THEN truncate_body(g.st, path, length) ELSE g

\* Memory.unlink
unlink_body(st, path) ==
    IF path \notin DOMAIN st.files
    THEN Out(st, "KeyError", "None")
    ELSE Out([st EXCEPT !.files = Pop(@, path)], "none", "None")

unlink(st, path, t) ==
    LET g == with_ttl(st, path, t)
    IN  IF g.err = "proceed" THEN unlink_body(g.st, path) ELSE g

\* Memory.utimens; `times` is "None" or a pair <<atime, mtime>>
utimens_body(st, path, times, t) ==
    LET am == IF times = "None" THEN <<t, t>> ELSE times
    IN  IF path \notin DOMAIN st.files
        THEN Out(st, "KeyError", "None")
        ELSE Out([st EXCEPT !.files[path] =
                     Put(Put(@, "st_atime", am[1]), "st_mtime", am[2])],
                 "none", "None")

utimens(st, path, times, t) ==
    LET g == with_ttl(st, path, t)
    IN  IF g.err = "proceed" THEN utimens_body(g.st, path, times, t) ELSE g

\* a write that appends to the buffer instead of cutting it at offset
write_body_Append(st, path, buf, offset) ==
    LET new == DataGet(st.data, path) \o buf
        d1  == Put(st.data, path, new)
    IN  IF path \notin DOMAIN st.files
        THEN Out([st EXCEPT !.data = d1], "KeyError", "None")
        ELSE Out([st EXCEPT !.data = d1,
                            !.files[path] = Put(@, "st_size", Len(new))],
                 "none", Len(buf))

\* Memory.write: the buffer is assigned before st_size is looked up
write_body(st, path, buf, offset) ==
    LET new == Slice(DataGet(st.data, path), 0, offset) \o buf
        d1  == Put(st.data, path, new)
    IN  IF path \notin DOMAIN st.files
        THEN Out([st EXCEPT !.data = d1], "KeyError", "None")
        ELSE Out([st EXCEPT !.data = d1,
                            !.files[path] = Put(@, "st_size", Len(new))],
                 "none", Len(buf))

write(st, path, buf, offset, t) ==
    LET g == with_ttl(st, path, t)
    IN  IF g.err = "proceed" THEN write_body(g.st, path, buf, offset) ELSE g

\* --------------------------------------------------------------- arguments
Modes      == {420}                  \* 0644, the mode create and mkdir are given
ChmodModes == {448}                  \* 0700
Owners     == {<<1000, 1000>>}       \* (uid, gid)
XattrNames == {"user.k"}
XattrVals  == {"v"}
TimesArgs  == {"None"}
WriteBufs  == {<<"y">>, [i \in 1..MaxLen |-> IF i = 1 THEN "x" ELSE "y"]}
Offsets    == {0, 1}
Sizes      == {1, MaxLen}
Lengths    == {1, MaxLen}
Sources    == {<<"x", "y">>}

\* ------------------------------------------------------------------ actions
\* the counters and buffers stay within the bounds the model follows
Bounded(st) == \A p \in DOMAIN st.data : Len(st.data[p]) <= MaxLen

Cur == St(files, data, fd)

\* the symlinks a call leaves untouched, and the one it makes: unlink, rmdir,
\* write and truncate touch their path, rename touches both of its paths, the
\* sweep touches what it reaps
LinksAfter(op, path, arg, reaped) ==
    LET cut  == (IF op \in {"unlink", "rmdir", "write", "truncate", "rename"}
                 THEN {path} ELSE {})
                    \cup (IF op = "rename" THEN {arg[1]} ELSE {})
                    \cup reaped
        kept == [q \in DOMAIN links \ cut |-> links[q]]
    IN  IF op = "symlink"
        THEN Put(kept, path, [source |-> arg[1], at |-> now])
        ELSE kept

\* one call: the state the handler leaves and the record of the call
Call(n, op, path, arg, reaped, r) ==
    /\ calls < n
    /\ calls' = calls + 1
    /\ \E o \in {r} :
          /\ Bounded(o.st)
          /\ files' = o.st.files
          /\ data' = o.st.data
          /\ fd' = o.st.fd
          /\ last' = [op |-> op, path |-> path, arg |-> arg, err |-> o.err,
                      ret |-> o.ret, reaped |-> reaped]
    /\ links' = LinksAfter(op, path, arg, reaped)
    /\ UNCHANGED <<default_ttl, now, th>>

\* a call of a decorated function
Gated(n, op, path, arg, r) ==
    Call(n, op, path, arg, Reaped(files, path, now), r)

Chmod(S, n) ==
    \E path \in S, mode \in ChmodModes :
        Gated(n, "chmod", path, <<mode>>, chmod(Cur, path, mode, now))

Chown(S, n) ==
    \E path \in S, o \in Owners :
        Gated(n, "chown", path, o, chown(Cur, path, o[1], o[2], now))

Create(S, n) ==
    \E path \in S, mode \in Modes :
        Gated(n, "create", path, <<mode>>, create(Cur, path, mode, now, default_ttl))

Getattr(S, n) ==
    \E path \in S : Gated(n, "getattr", path, <<>>, getattr(Cur, path, now))

Getxattr(S, n) ==
    \E path \in S, name \in XattrNames :
        Gated(n, "getxattr", path, <<name>>, getxattr(Cur, path, name, now))

Listxattr(S, n) ==
    \E path \in S : Gated(n, "listxattr", path, <<>>, listxattr(Cur, path, now))

Mkdir(S, n) ==
    \E path \in S, mode \in Modes :
        Gated(n, "mkdir", path, <<mode>>, mkdir(Cur, path, mode, now, default_ttl))

Open(S, n) ==
    \E path \in S : Gated(n, "open", path, <<>>, open(Cur, path, now))

Read(S, n) ==
    \E path \in S, size \in Sizes, offset \in Offsets :
        Gated(n, "read", path, <<size, offset>>, read(Cur, path, size, offset, now))

Readdir(S, n) ==
    \E path \in S : Gated(n, "readdir", path, <<>>, readdir(Cur, path, now))

Readlink(S, n) ==
    \E path \in S : Gated(n, "readlink", path, <<>>, readlink(Cur, path, now))

Removexattr(S, n) ==
    \E path \in S, name \in XattrNames :
        Gated(n, "removexattr", path, <<name>>, removexattr(Cur, path, name, now))

Rename(S, n) ==
    \E old \in S, new \in S :
        Call(n, "rename", old, <<new>>, {}, rename(Cur, old, new))

Rmdir(S, n) ==
    \E path \in S : Gated(n, "rmdir", path, <<>>, rmdir(Cur, path, now))

Setxattr(S, n) ==
    \E path \in S, name \in XattrNames, value \in XattrVals :
        Gated(n, "setxattr", path, <<name, value>>,
              setxattr(Cur, path, name, value, now))

Statfs(S, n) ==
    \E path \in S : Gated(n, "statfs", path, <<>>, statfs(Cur, path, now))

Symlink(S, n) ==
    \E target \in S, source \in Sources :
        Call(n, "symlink", target, <<source>>, {}, symlink(Cur, target, source))

Truncate(S, n) ==
    \E path \in S, length \in Lengths :
        Gated(n, "truncate", path, <<length>>, truncate(Cur, path, length, now))

Unlink(S, n) ==
    \E path \in S : Gated(n, "unlink", path, <<>>, unlink(Cur, path, now))

Utimens(S, n) ==
    \E path \in S, times \in TimesArgs :
        Gated(n, "utimens", path, <<times>>, utimens(Cur, path, times, now))

Write(S, n) ==
    \E path \in S, buf \in WriteBufs, offset \in Offsets :
        Gated(n, "write", path, <<buf, offset>>, write(Cur, path, buf, offset, now))

\* time passes between two calls
Tick ==
    /\ now < MaxTime
    /\ now' = now + 1
    /\ UNCHANGED <<files, data, fd, default_ttl, last, calls, links, th>>

\* the threads of the dispatcher, and a thread with no call in flight
Threads == 1..MaxThreads

NoCall == [pc |-> "idle", path |-> Root, todo |-> {}, cur |-> {},
           popped |-> {}, missed |-> {}, err |-> "none"]

\* Memory.__init__
Init ==
    /\ now = 0
    /\ default_ttl \in 1..MaxTtl
    /\ files = [p \in {Root} |->
                  [st_mode |-> Mode("S_IFDIR", 493), st_ctime |-> now,
                   st_mtime |-> now, st_atime |-> now, st_nlink |-> 2]]
    /\ data = <<>>
    /\ fd = 0
    /\ calls = 0
    /\ last = [op |-> "init", path |-> Root, arg |-> <<>>, err |-> "none",
               ret |-> "None", reaped |-> {}]
    /\ links = <<>>
    /\ th = [t \in Threads |-> NoCall]

Next ==
    \/ Chmod(Paths, MaxCalls)
    \/ Chown(Paths, MaxCalls)
    \/ Create(Paths, MaxCalls)
    \/ Getattr(Paths, MaxCalls)
    \/ Getxattr(Paths, MaxCalls)
    \/ Listxattr(Paths, MaxCalls)
    \/ Mkdir(Paths, MaxCalls)
    \/ Open(Paths, MaxCalls)
    \/ Read(Paths, MaxCalls)
    \/ Readdir(Paths, MaxCalls)
    \/ Readlink(Paths, MaxCalls)
    \/ Removexattr(Paths, MaxCalls)
    \/ Rename(Paths, MaxCalls)
    \/ Rmdir(Paths, MaxCalls)
    \/ Setxattr(Paths, MaxCalls)
    \/ Statfs(Paths, MaxCalls)
    \/ Symlink(Paths, MaxCalls)
    \/ Truncate(Paths, MaxCalls)
    \/ Unlink(Paths, MaxCalls)
    \/ Utimens(Paths, MaxCalls)
    \/ Write(Paths, MaxCalls)
    \/ Tick

Spec == Init /\ [][Next]_vars

\* The life of one path: the calls that create, fill, read and remove "/a",
\* followed over longer call sequences than Spec follows the whole namespace.
FilePaths == {PA}

NextFile ==
    \/ Create(FilePaths, MaxFileCalls)
    \/ Read(FilePaths, MaxFileCalls)
    \/ Readlink(FilePaths, MaxFileCalls)
    \/ Rmdir(FilePaths, MaxFileCalls)
    \/ Symlink(FilePaths, MaxFileCalls)
    \/ Truncate(FilePaths, MaxFileCalls)
    \/ Unlink(FilePaths, MaxFileCalls)
    \/ Write(FilePaths, MaxFileCalls)
    \/ Tick

SpecFile == Init /\ [][NextFile]_vars

\* ------------------------------------------------ calls that run concurrently
\* FUSE(Memory(), ...) dispatches from several threads and Memory takes no
\* lock: a getattr call of one thread is followed here access by access to
\* self.files, the accesses of the other thread falling in between. The
\* entries are made by serial calls before the first thread is dispatched.
ConcPaths == {PA, PAsB}

Idle == \A t \in Threads : th[t].pc = "idle"

\* with_ttl enters is_expired, which lists the keys that start with path
ConcDispatch(t) ==
    /\ th[t].pc = "idle"
    /\ \E path \in ConcPaths :
          th' = [th EXCEPT ![t] =
                    [@ EXCEPT !.pc = "loop", !.path = path,
                              !.todo = {p \in DOMAIN files : StartsWith(p, path)}]]
    /\ UNCHANGED <<calls, now, files, data, fd, default_ttl, last, links>>

\* is_expired: `if self.check_ttl(sub_path)` for the next listed key
ConcCheck(t) ==
    /\ th[t].pc = "loop"
    /\ \E sub \in th[t].todo :
          th' = [th EXCEPT ![t] =
                    IF check_ttl(files, sub, now)
                    THEN [@ EXCEPT !.pc = "pop", !.cur = {sub},
                                   !.todo = @ \ {sub}]
                    ELSE [@ EXCEPT !.todo = @ \ {sub}]]
    /\ UNCHANGED <<calls, now, files, data, fd, default_ttl, last, links>>

\* is_expired: `self.files.pop(sub_path)`, a KeyError when the key is gone
ConcPop(t) ==
    /\ th[t].pc = "pop"
    /\ \E sub \in th[t].cur :
          IF sub \in DOMAIN files
          THEN /\ files' = Pop(files, sub)
               /\ th' = [th EXCEPT ![t] =
                            [@ EXCEPT !.pc = "loop", !.cur = {},
                                      !.popped = @ \cup {sub}]]
          ELSE /\ files' = files
               /\ th' = [th EXCEPT ![t] =
                            [@ EXCEPT !.pc = "done", !.cur = {},
                                      !.missed = @ \cup {sub},
                                      !.err = "KeyError"]]
    /\ UNCHANGED <<calls, now, data, fd, default_ttl, last, links>>

\* is_expired: the check_ttl(path) after the loop, and the branch with_ttl
\* takes on its answer
ConcReturn(t) ==
    /\ th[t].pc = "loop"
    /\ th[t].todo = {}
    /\ IF check_ttl(files, th[t].path, now)
       THEN /\ files' = with_ttl(Cur, th[t].path, now).st.files
            /\ th' = [th EXCEPT ![t] =
                         [@ EXCEPT !.pc = "done",
                                   !.err = with_ttl(Cur, th[t].path, now).err]]
       ELSE /\ files' = files
            /\ th' = [th EXCEPT ![t] = [@ EXCEPT !.pc = "body"]]
    /\ UNCHANGED <<calls, now, data, fd, default_ttl, last, links>>

\* Memory.getattr: `if path not in self.files: raise FuseOSError(ENOENT)`
ConcGetattrTest(t) ==
    /\ th[t].pc = "body"
    /\ th' = [th EXCEPT ![t] =
                 IF th[t].path \notin DOMAIN files
                 THEN [@ EXCEPT !.pc = "done", !.err = "ENOENT"]
                 ELSE [@ EXCEPT !.pc = "read"]]
    /\ UNCHANGED <<calls, now, files, data, fd, default_ttl, last, links>>

\* Memory.getattr: `st = self.files[path]`, a KeyError when the key is gone
ConcGetattrRead(t) ==
    /\ th[t].pc = "read"
    /\ th' = [th EXCEPT ![t] =
                 IF th[t].path \in DOMAIN files
                 THEN [@ EXCEPT !.pc = "done", !.err = "none"]
                 ELSE [@ EXCEPT !.pc = "done", !.err = "KeyError"]]
    /\ UNCHANGED <<calls, now, files, data, fd, default_ttl, last, links>>

NextConc ==
    \/ Idle /\ Create(ConcPaths, MaxConcCalls)
    \/ Idle /\ Mkdir(ConcPaths, MaxConcCalls)
    \/ Idle /\ Tick
    \/ \E t \in Threads : ConcDispatch(t)
    \/ \E t \in Threads : ConcCheck(t)
    \/ \E t \in Threads : ConcPop(t)
    \/ \E t \in Threads : ConcReturn(t)
    \/ \E t \in Threads : ConcGetattrTest(t)
    \/ \E t \in Threads : ConcGetattrRead(t)

SpecConc == Init /\ [][NextConc]_vars

\* ------------------------------------------------- vocabulary of the claims
\* the decorated (gated) operations
GatedOps ==
    {"getattr", "readdir", "create", "mkdir", "open", "read", "write",
     "truncate", "unlink", "rmdir", "readlink", "chmod", "chown", "utimens",
     "getxattr", "setxattr", "listxattr", "removexattr", "statfs"}

\* the entry stored at p carries a TTL that has elapsed at time t
ElapsedAt(f, p, t) ==
    /\ p \in DOMAIN f
    /\ "st_ctime" \in DOMAIN f[p]
    /\ "ttl" \in DOMAIN f[p]
    /\ f[p].st_ctime + f[p].ttl < t

\* this step is a call (of the operation op)
IsCall == calls' = calls + 1
IsCallOf(op) == IsCall /\ last'.op = op
IsGatedCall == IsCall /\ last'.op \in GatedOps

\* the position of the last "/" of a path, its parent directory and its
\* last component
LastSlash(x) == CHOOSE i \in 1..Len(x) :
                    x[i] = "/" /\ \A j \in (i + 1)..Len(x) : x[j] # "/"
Parent(x) == IF LastSlash(x) = 1 THEN Root ELSE SubSeq(x, 1, LastSlash(x) - 1)
Basename(x) == SubSeq(x, LastSlash(x) + 1, Len(x))

\* the path of the entry called `name` in directory dir
Join(dir, name) == IF dir = Root THEN Root \o name ELSE dir \o <<"/">> \o name

Dot == {<<".">>, <<".", ".">>}

\* ------------------------------------------------------------------ claims
\* C1: a gated operation called on a path whose own entry has ctime + ttl < now
\* fails with NotFound (ENOENT).
C1_ExpiredIsNotFound ==
    [][(IsGatedCall /\ ElapsedAt(files, last'.path, now))
           => last'.err = "ENOENT"]_vars

\* C2: after a gated operation on P has returned, with a result or an error,
\* the store holds no entry whose path starts with P and whose ctime + ttl is
\* less than the time of the call.
C2_CascadingExpiry ==
    [][IsGatedCall =>
          \A q \in DOMAIN files' :
              StartsWith(q, last'.path) => ~ElapsedAt(files', q, now)]_vars

\* a listing of the live directory "/a" has reaped its expired child "/a/b"
C2_Witness ==
    /\ last.op = "readdir"
    /\ last.path = PA
    /\ last.err = "none"
    /\ PA \in DOMAIN files
    /\ PAsB \in last.reaped
    /\ PAsB \notin DOMAIN files

\* C3: in every reachable state "/" is stored, is a directory and has no TTL.
C3_RootDurable ==
    /\ Root \in DOMAIN files
    /\ files[Root].st_mode.ifmt = "S_IFDIR"
    /\ "ttl" \notin DOMAIN files[Root]

\* C4: a write into a live file whose content C is longer than
\* offset + len(data) leaves C[0:offset] + data + C[offset+len(data):].
C4_PartialOverwrite ==
    [][(/\ IsCallOf("write")
        /\ last'.path \in DOMAIN files
        /\ files[last'.path].st_mode.ifmt = "S_IFREG"
        /\ ~ElapsedAt(files, last'.path, now)
        /\ Len(DataGet(data, last'.path)) > last'.arg[2] + Len(last'.arg[1]))
       => LET C == DataGet(data, last'.path)
              buf == last'.arg[1]
              offset == last'.arg[2]
          IN  DataGet(data', last'.path) =
                  SubSeq(C, 1, offset) \o buf
                      \o SubSeq(C, offset + Len(buf) + 1, Len(C))]_vars

\* C5: readdir of a live directory P returns ".", ".." and exactly the last
\* components of the stored paths whose parent directory is P.
C5_ListingIsChildren ==
    (/\ last.op = "readdir"
     /\ last.err = "none"
     /\ last.path \in DOMAIN files
     /\ files[last.path].st_mode.ifmt = "S_IFDIR")
    => last.ret = Dot \cup {Basename(x) : x \in {y \in DOMAIN files \ {Root} :
                                                    Parent(y) = last.path}}

\* C6: a successful readdir(P) at time now returns no name of an entry that is
\* stored with ctime + ttl < now when the call is made.
C6_NoExpiredListed ==
    [][(IsCallOf("readdir") /\ last'.err = "none")
       => \A x \in DOMAIN files :
             ElapsedAt(files, x, now)
                 => \A name \in last'.ret \ Dot : Join(last'.path, name) # x]_vars

\* a listing that reaped an entry and still names a live one
C6_Witness ==
    /\ last.op = "readdir"
    /\ last.err = "none"
    /\ last.reaped # {}
    /\ last.ret \ Dot # {}

\* the call recorded in l removed the entry of p: a successful unlink or rmdir
\* of p, or a sweep that reaped p
RemovedBy(l, p) ==
    \/ l.op \in {"unlink", "rmdir"} /\ l.err = "none" /\ l.path = p
    \/ p \in l.reaped

\* C7: once a path has been removed by unlink, by rmdir or by the expiry gate,
\* a read or readlink of it returns none of the bytes stored before the
\* removal: with no write in between, it returns no bytes.
C7_RemovedContentGone ==
    [][(/\ IsCall
        /\ last'.op \in {"read", "readlink"}
        /\ last'.err = "none"
        /\ \/ RemovedBy(last, last'.path)
           \/ ElapsedAt(files, last'.path, now))
       => last'.ret = <<>>]_vars

\* C8: a call that ends in an error leaves the content store as it was, and
\* the metadata store as it was apart from the expired entries.
C8_AtomicOnFailure ==
    [][(IsCall /\ last'.err # "none")
       => /\ \A p \in Paths : DataGet(data', p) = DataGet(data, p)
          /\ DOMAIN files' \subseteq DOMAIN files
          /\ \A p \in DOMAIN files :
                ~ElapsedAt(files, p, now)
                    => p \in DOMAIN files' /\ files'[p] = files[p]]_vars

\* the operations whose failure column is NotFound
NotFoundOps == GatedOps \ {"create", "mkdir"}

\* C9: an operation whose failure is NotFound fails with NotFound, and with
\* nothing else, when its path is absent from the metadata store.
C9_AbsentIsNotFound ==
    [][(IsCall /\ last'.op \in NotFoundOps /\ last'.path \notin DOMAIN files)
       => last'.err = "ENOENT"]_vars

\* p holds a regular file whose TTL has not elapsed at time t
LiveFile(f, p, t) ==
    /\ p \in DOMAIN f
    /\ f[p].st_mode.ifmt = "S_IFREG"
    /\ ~ElapsedAt(f, p, t)

\* C10: write(path, B, 0) on a created, live file returns len(B), and the
\* read(path, len(B), 0) that follows it while the file is live returns B,
\* whatever the path's buffer held before.
C10_RoundTrip ==
    [][/\ (IsCallOf("write") /\ last'.arg[2] = 0
              /\ LiveFile(files, last'.path, now))
          => (last'.err = "none" /\ last'.ret = Len(last'.arg[1]))
       /\ (/\ IsCallOf("read")
           /\ last.op = "write"
           /\ last.err = "none"
           /\ last.arg[2] = 0
           /\ last'.path = last.path
           /\ last'.arg = <<Len(last.arg[1]), 0>>
           /\ LiveFile(files, last'.path, now))
          => (last'.err = "none" /\ last'.ret = last.arg[1])]_vars

\* a read that returned the MaxLen bytes of a live file
C10_Witness ==
    /\ last.op = "read"
    /\ last.err = "none"
    /\ last.arg = <<MaxLen, 0>>
    /\ Len(last.ret) = MaxLen
    /\ LiveFile(files, last.path, now)

\* C11: truncate(path, n) of a live file whose content C has at least n bytes
\* leaves the first n bytes of C as the content and n as the size.
C11_TruncateShrink ==
    [][(/\ IsCallOf("truncate")
        /\ LiveFile(files, last'.path, now)
        /\ Len(DataGet(data, last'.path)) >= last'.arg[1])
       => /\ last'.err = "none"
          /\ DataGet(data', last'.path) =
                 SubSeq(DataGet(data, last'.path), 1, last'.arg[1])
          /\ files'[last'.path].st_size = last'.arg[1]]_vars

\* a truncate to one byte that cut a longer content of a live file: no write
\* and no symlink of the model stores the single byte "x"
C11_Witness ==
    /\ last.op = "truncate"
    /\ last.err = "none"
    /\ last.arg = <<1>>
    /\ LiveFile(files, last.path, now)
    /\ data[last.path] = <<"x">>
    /\ files[last.path].st_size = 1

\* p is stored as a symbolic link
IsLink(f, p) == p \in DOMAIN f /\ f[p].st_mode.ifmt = "S_IFLNK"

\* C12: after symlink(T, S), and as long as no call has removed, renamed,
\* written or truncated T, readlink(T) returns S at any later time; the link
\* carries no TTL, is not reaped, and has size len(S).
C12_SymlinkRoundTrip ==
    [][/\ (IsCallOf("readlink") /\ last'.path \in DOMAIN links)
          => (last'.err = "none" /\ last'.ret = links[last'.path].source)
       /\ IsCall
          => \A T \in DOMAIN links' :
                /\ IsLink(files', T)
                      => /\ files'[T].st_size = Len(links'[T].source)
                         /\ "ttl" \notin DOMAIN files'[T]
                /\ (T \in DOMAIN links /\ IsLink(files, T))
                      => (T \in DOMAIN files' /\ T \notin last'.reaped)]_vars

\* a readlink made when a sweep was due (at time 2 or later) returned the
\* source of a link made at time 0, and the link is still stored
C12_Witness ==
    /\ last.op = "readlink"
    /\ last.err = "none"
    /\ last.reaped # {}
    /\ last.path \in DOMAIN links
    /\ links[last.path].at = 0
    /\ last.ret = links[last.path].source
    /\ last.ret # <<>>
    /\ IsLink(files, last.path)
    /\ files[last.path].st_size = Len(last.ret)

\* C13: a gated operation called on a path whose own entry has expired does
\* not run its body: after the call the path is absent from the metadata
\* store, every buffer of the content store reads as before and the handle
\* counter is unchanged.
C13_ExpiredBodySkipped ==
    [][(IsGatedCall /\ ElapsedAt(files, last'.path, now))
       => /\ last'.path \notin DOMAIN files'
          /\ \A p \in Paths : DataGet(data', p) = DataGet(data, p)
          /\ fd' = fd]_vars

\* C14: in every reachable state every stored path other than "/" has its
\* parent directory stored; so no descendant of a directory outlives the
\* directory's removal by the sweep, by rmdir or by unlink.
C14_NoOrphans ==
    \A p \in DOMAIN files \ {Root} : Parent(p) \in DOMAIN files

\* the stored directories whose parent directory is p
ChildDirs(f, p) ==
    {q \in DOMAIN f \ {Root} : Parent(q) = p /\ f[q].st_mode.ifmt = "S_IFDIR"}

\* C15: in every reachable state a stored directory has nlink 2 plus the
\* number of stored directories that are its direct children, and a stored
\* regular file or symlink has nlink 1.
C15_LinkCount ==
    \A p \in DOMAIN files :
        files[p].st_nlink =
            IF files[p].st_mode.ifmt = "S_IFDIR"
            THEN 2 + Cardinality(ChildDirs(files, p))
            ELSE 1

\* C16: in every reachable state the size of a stored regular file or symlink
\* is the length of its content buffer.
C16_SizeIsLength ==
    \A p \in DOMAIN files :
        files[p].st_mode.ifmt \in {"S_IFREG", "S_IFLNK"}
            => files[p].st_size = Len(DataGet(data, p))

\* C17: a gated operation made at time now removes by its sweep only entries
\* with ctime + ttl < now, never one with now <= ctime + ttl or without a TTL,
\* and on a stored path whose TTL has not elapsed (the boundary
\* now = ctime + ttl included) it does not fail as expired.
C17_StrictExpiry ==
    [][IsGatedCall
       => /\ \A p \in last'.reaped : ElapsedAt(files, p, now)
          /\ \A p \in DOMAIN files \ DOMAIN files' :
                \/ ElapsedAt(files, p, now)
                \/ p = last'.path /\ last'.op \in {"unlink", "rmdir"}
          /\ (last'.path \in DOMAIN files /\ ~ElapsedAt(files, last'.path, now))
                => last'.err # "ENOENT"]_vars

\* a utimens made at the boundary now = ctime + ttl, later than ctime, ran its
\* body on the stored entry: the access time it stored is the time of the call
C17_Witness ==
    /\ last.op = "utimens"
    /\ last.err = "none"
    /\ last.path \in DOMAIN files
    /\ "ttl" \in DOMAIN files[last.path]
    /\ files[last.path].ttl > 0
    /\ files[last.path].st_atime = files[last.path].st_ctime + files[last.path].ttl

\* C18: rename(old, new) of a stored regular file or symlink, old # new, leaves
\* old absent and new holding the record old held, and a read or readlink of
\* new then returns the bytes a read or readlink of old returned before.
C18_RenameCarriesContent ==
    [][(/\ IsCallOf("rename")
        /\ last'.path # last'.arg[1]
        /\ last'.path \in DOMAIN files
        /\ files[last'.path].st_mode.ifmt \in {"S_IFREG", "S_IFLNK"})
       => LET old == last'.path
              new == last'.arg[1]
          IN  /\ last'.err = "none"
              /\ old \notin DOMAIN files'
              /\ new \in DOMAIN files'
              /\ files'[new] = files[old]
              /\ DataGet(data', new) = DataGet(data, old)]_vars

\* C19: when two gated calls on the same or on prefix-overlapping paths run
\* concurrently with no lock, each expired entry is removed once, no call
\* tries to remove an entry the other call has removed, and each call ends
\* with its result or with NotFound, never with another failure.
C19_ConcurrentSweepSafe ==
    \A t \in Threads :
        /\ th[t].missed = {}
        /\ \A u \in Threads \ {t} : th[t].popped \cap th[u].popped = {}
        /\ th[t].pc = "done"
              => /\ th[t].err \in {"none", "ENOENT"}
                 /\ \A q \in DOMAIN files :
                       StartsWith(q, th[t].path) => ~ElapsedAt(files, q, now)

====
